---- MODULE Spec2Model ----
(***************************************************************************)
(* WhatsApp bulk dispatcher (src/app.py): the three dispatch endpoints,    *)
(* the Twilio status callback and the report, over the process-wide STATE  *)
(* dictionary.  In Spec each HTTP handler is one atomic action: requests   *)
(* served one after another.  ConcSpec takes the dispatch handlers and the *)
(* status callback apart into their accesses to STATE, for requests served *)
(* by two threads at once (app.run serves each request in its own thread). *)
(* NormSpec drives the normalizer through /debug-lookup.  UrlSpec starts   *)
(* the process under different values of PUBLIC_BASE_URL and serves        *)
(* dispatch requests.                                                      *)
(*                                                                         *)
(* Python values are modelled as follows.  A str that the code takes apart *)
(* character by character (phone numbers, the message text, the template   *)
(* id) is a sequence of one-character strings; other strings are TLA+      *)
(* strings.  A dict is a function whose DOMAIN is the set of keys present; *)
(* a missing key is a key outside DOMAIN.  None is the value None below.   *)
(* A list is a sequence.  The dicts of STATE are keyed by E.164 numbers    *)
(* and message sids; their iteration order is not modelled, so the report  *)
(* lists are sets.                                                         *)
(***************************************************************************)
EXTENDS Integers, Sequences, FiniteSets, TLC

VARIABLES
    sid_to_number,   \* STATE["sid_to_number"]: sid -> e164
    delivery,        \* STATE["delivery"]: e164 -> entry dict
    last_summary,    \* STATE["last_summary"]
    nextSid,         \* provider side: how many message sids Twilio has issued
    request,         \* the request the last handler served
    response,        \* what that handler returned: [code, body]
    calls,           \* the send_one_whatsapp* calls that handler made, in order
    nitems,          \* items submitted to the dispatch handlers so far
    nevents,         \* status callbacks served so far
    dispatcher,      \* ConcSpec: the locals of the thread in a dispatch handler
    callback,        \* ConcSpec: the locals of the thread in twilio_status
    race,            \* ConcSpec: STATE as it was when the dispatch began
    PUBLIC_BASE_URL  \* configuration: the PUBLIC_BASE_URL the process read

vars == <<sid_to_number, delivery, last_summary, nextSid, request, response,
          calls, nitems, nevents, dispatcher, callback, race, PUBLIC_BASE_URL>>

\* the two request threads of ConcSpec; they stay idle in Spec and NormSpec
threads == <<dispatcher, callback, race>>

\* the three entries of the STATE dictionary
store == <<sid_to_number, delivery, last_summary>>

(* ------------------------------ bounds -------------------------------- *)
\* items submitted to the dispatch handlers over a run, and status
\* callbacks received over a run
MaxItems == 2
MaxEvents == 2

(* --------------------------- Python values ---------------------------- *)
None == "None"
EmptyDict == [k \in {} |-> None]
EmptyVars == "{}"

\* truth value of a string-valued (or None) Python value
Truthy(x) == x \notin {None, "", EmptyVars}

\* Python's  a or b
Or(a, b) == IF Truthy(a) THEN a ELSE b

\* d[k] = v on a dict
put(d, k, v) == [x \in DOMAIN d \cup {k} |-> IF x = k THEN v ELSE d[x]]

\* d.get(k, dflt)
get(d, k, dflt) == IF k \in DOMAIN d THEN d[k] ELSE dflt

Digits == {"0", "1", "2", "3", "4", "5", "6", "7", "8", "9"}
Whitespace == {" "}

RECURSIVE lstrip(_)
lstrip(s) == IF s # <<>> /\ Head(s) \in Whitespace THEN lstrip(Tail(s)) ELSE s

RECURSIVE rstrip(_)
rstrip(s) ==
    IF s # <<>> /\ s[Len(s)] \in Whitespace
    THEN rstrip(SubSeq(s, 1, Len(s) - 1))
    ELSE s

\* str.strip()
strip(s) == rstrip(lstrip(s))

UpperCase == <<"A", "B", "C", "D", "E", "F", "G", "H", "I", "J", "K", "L", "M",
              "N", "O", "P", "Q", "R", "S", "T", "U", "V", "W", "X", "Y", "Z">>
LowerCase == <<"a", "b", "c", "d", "e", "f", "g", "h", "i", "j", "k", "l", "m",
              "n", "o", "p", "q", "r", "s", "t", "u", "v", "w", "x", "y", "z">>

\* str.lower()
lower(s) ==
    [i \in 1..Len(s) |->
        IF \E k \in DOMAIN UpperCase : UpperCase[k] = s[i]
        THEN LowerCase[CHOOSE k \in DOMAIN UpperCase : UpperCase[k] = s[i]]
        ELSE s[i]]

\* s.startswith(prefix)
startswith(s, prefix) ==
    Len(prefix) <= Len(s) /\ SubSeq(s, 1, Len(prefix)) = prefix

\* sub in s
contains(sub, s) ==
    \E i \in 1..(Len(s) - Len(sub) + 1) : SubSeq(s, i, i + Len(sub) - 1) = sub

\* s.rstrip(chars)
RECURSIVE rstrip_chars(_, _)
rstrip_chars(s, chars) ==
    IF s # <<>> /\ s[Len(s)] \in chars
    THEN rstrip_chars(SubSeq(s, 1, Len(s) - 1), chars)
    ELSE s

(* ------------------------------ config -------------------------------- *)
DEFAULT_REGION == "MX"

\* status_callback_url = None, and a send made without status_callback
NoCallback == <<>>

\* PUBLIC_BASE_URL when it is https and names neither localhost nor
\* 127.0.0.1, without its trailing slashes; the empty string otherwise
valid_public_base ==
    LET base == PUBLIC_BASE_URL
    IN  IF /\ startswith(lower(base), <<"h", "t", "t", "p", "s", ":", "/", "/">>)
           /\ ~contains(<<"l", "o", "c", "a", "l", "h", "o", "s", "t">>, base)
           /\ ~contains(<<"1", "2", "7", ".", "0", ".", "0", ".", "1">>, base)
        THEN rstrip_chars(base, {"/"})
        ELSE <<>>

\* f"{base}/twilio/status" if base else None, as the handlers compute it
\* before their loop
status_callback_url ==
    LET base == valid_public_base
    IN  IF base # <<>>
        THEN base \o <<"/", "t", "w", "i", "l", "i", "o", "/",
                     "s", "t", "a", "t", "u", "s">>
        ELSE NoCallback

(* ------------------------- number normalizer -------------------------- *)
\* The phonenumbers library on a digits-only string, for region MX:
\* parse + is_possible_number + is_valid_number + format E164.  A national
\* number is ten digits not starting with 0 or 1; the country code 52 in
\* front of one is recognised and kept.  Anything else raises.
phonenumbers_e164(s, region) ==
    IF region = "MX" /\ Len(s) = 10 /\ s[1] \notin {"0", "1"}
    THEN [ok |-> TRUE, e164 |-> <<"+", "5", "2">> \o s]
    ELSE IF region = "MX" /\ Len(s) = 12 /\ s[1] = "5" /\ s[2] = "2"
            /\ s[3] \notin {"0", "1"}
    THEN [ok |-> TRUE, e164 |-> <<"+">> \o s]
    ELSE [ok |-> FALSE, e164 |-> <<>>]

\* [ok, e164, err]: err is the ValueError's message; its text repeats the
\* argument and the region, which the tag leaves out.
normalize_to_e164(raw_number, region) ==
    LET s == SelectSeq(raw_number, LAMBDA ch : ch \in Digits)
        pn == phonenumbers_e164(s, region)
    IN  IF s = <<>>
        THEN [ok |-> FALSE, e164 |-> <<>>, err |-> "Numero vacio"]
        ELSE IF pn.ok
        THEN [ok |-> TRUE, e164 |-> pn.e164, err |-> ""]
        ELSE IF region = "MX" /\ Len(s) = 10
        THEN [ok |-> TRUE, e164 |-> <<"+", "5", "2">> \o s, err |-> ""]
        ELSE [ok |-> FALSE, e164 |-> <<>>, err |-> "No se pudo normalizar"]

with_whatsapp_prefix(e164) == <<"whatsapp:">> \o e164

(* --------------------------- message sender --------------------------- *)
\* Twilio issues a fresh sid for every message it accepts.
Sid(n) == "SM" \o ToString(n)

\* str(ex) of whatever send_one_whatsapp* raised
SendErrorText == "send error"

\* What the provider (or the sender's own configuration check) does with
\* one call: accept it and return a sid, or raise.
Outcomes == {"ok", "raise"}

(* ------------------------- dispatch batch loops ----------------------- *)
\* The four loops of the three dispatch handlers differ in what an item is,
\* where the variables come from, what the entry records and whether a
\* failed send is reported:
\*   "bulk"          send_bulk, over telefonos
\*   "nums"          send_template, over telefonos
\*   "lotes"         send_template, over lotes
\*   "personalizado" send_template_bulk_personalizado, over lotes
LoteLoops == {"lotes", "personalizado"}
TemplateLoops == {"nums", "lotes", "personalizado"}

\* lote.get(...) raises AttributeError on an item that is not a JSON object
raises_on_item(loop, item) == loop \in LoteLoops /\ ~item.mapping

raw_str_of(loop, item) ==
    IF loop \in LoteLoops THEN strip(item.telefono) ELSE strip(item)

vars_of(loop, item, variables_globales) ==
    CASE loop = "lotes" -> Or(Or(item.vars, variables_globales), EmptyVars)
      [] loop = "personalizado" -> Or(item.vars, EmptyVars)
      [] loop = "nums" -> variables_globales
      [] OTHER -> EmptyVars

queued_entry(loop, sid, content, vars_lote) ==
    IF loop \in TemplateLoops
    THEN [status |-> "queued", sid |-> sid, channel |-> "whatsapp",
          template |-> content, vars |-> vars_lote]
    ELSE [status |-> "queued", sid |-> sid, channel |-> "whatsapp"]

failed_entry(loop, reason, content, vars_lote) ==
    IF loop \in TemplateLoops
    THEN [status |-> "failed_on_send", reason |-> reason, channel |-> "whatsapp",
          template |-> content, vars |-> vars_lote]
    ELSE [status |-> "failed_on_send", reason |-> reason, channel |-> "whatsapp"]

\* The locals and the STATE entries a loop works on.
loop_start(s2n, dlv, issued) ==
    [sid_to_number |-> s2n, delivery |-> dlv, nextSid |-> issued,
     invalid_by_lookup |-> <<>>, queued |-> <<>>, failed_on_send |-> <<>>,
     calls |-> <<>>, raised |-> FALSE,
     status_callback_url |-> status_callback_url]

\* send_step with the except clause re-raising: a failed send ends the batch
send_step_aborting(loop, content, vars_lote, raw_str, e164, out, i, acc) ==
    LET call == [item |-> i, to |-> with_whatsapp_prefix(e164),
                 content |-> content, vars |-> vars_lote,
                 status_callback |-> IF acc.status_callback_url # NoCallback
                                     THEN acc.status_callback_url
                                     ELSE NoCallback,
                 out |-> out]
        sid == Sid(acc.nextSid + 1)
    IN  IF out = "ok"
        THEN [acc EXCEPT
                !.nextSid = @ + 1,
                !.sid_to_number = put(@, sid, e164),
                !.delivery = put(@, e164, queued_entry(loop, sid, content, vars_lote)),
                !.queued = Append(@, raw_str),
                !.calls = Append(@, call)]
        ELSE [acc EXCEPT
                !.delivery = put(@, e164,
                                 failed_entry(loop, SendErrorText, content, vars_lote)),
                !.calls = Append(@, call),
                !.raised = TRUE]

\* send_step without the write to STATE["sid_to_number"]
send_step_no_index(loop, content, vars_lote, raw_str, e164, out, i, acc) ==
    LET call == [item |-> i, to |-> with_whatsapp_prefix(e164),
                 content |-> content, vars |-> vars_lote,
                 status_callback |-> IF acc.status_callback_url # NoCallback
                                     THEN acc.status_callback_url
                                     ELSE NoCallback,
                 out |-> out]
        sid == Sid(acc.nextSid + 1)
    IN  IF out = "ok"
        THEN [acc EXCEPT
                !.nextSid = @ + 1,
                !.delivery = put(@, e164, queued_entry(loop, sid, content, vars_lote)),
                !.queued = Append(@, raw_str),
                !.calls = Append(@, call)]
        ELSE [acc EXCEPT
                !.delivery = put(@, e164,
                                 failed_entry(loop, SendErrorText, content, vars_lote)),
                !.failed_on_send =
                    IF loop = "personalizado"
                    THEN Append(@, [numero |-> raw_str, e164 |-> e164,
                                    reason |-> SendErrorText])
                    ELSE @,
                !.calls = Append(@, call)]

\* send_step that updates the entry the address already has (dict.update)
\* instead of assigning a new one
send_step_merging(loop, content, vars_lote, raw_str, e164, out, i, acc) ==
    LET call == [item |-> i, to |-> with_whatsapp_prefix(e164),
                 content |-> content, vars |-> vars_lote,
                 status_callback |-> IF acc.status_callback_url # NoCallback
                                     THEN acc.status_callback_url
                                     ELSE NoCallback,
                 out |-> out]
        sid == Sid(acc.nextSid + 1)
        old == get(acc.delivery, e164, EmptyDict)
        merged(new) == [k \in DOMAIN old \cup DOMAIN new |->
                           IF k \in DOMAIN new THEN new[k] ELSE old[k]]
    IN  IF out = "ok"
        THEN [acc EXCEPT
                !.nextSid = @ + 1,
                !.sid_to_number = put(@, sid, e164),
                !.delivery = put(@, e164,
                                 merged(queued_entry(loop, sid, content, vars_lote))),
                !.queued = Append(@, raw_str),
                !.calls = Append(@, call)]
        ELSE [acc EXCEPT
                !.delivery = put(@, e164,
                                 merged(failed_entry(loop, SendErrorText, content,
                                                     vars_lote))),
                !.failed_on_send =
                    IF loop = "personalizado"
                    THEN Append(@, [numero |-> raw_str, e164 |-> e164,
                                    reason |-> SendErrorText])
                    ELSE @,
                !.calls = Append(@, call)]

\* The try block around the send: on success the sid index, the entry and
\* the queued list are written; on any exception the failed entry is, and
\* only the personalizado loop reports it.
send_step(loop, content, vars_lote, raw_str, e164, out, i, acc) ==
    LET call == [item |-> i, to |-> with_whatsapp_prefix(e164),
                 content |-> content, vars |-> vars_lote,
                 status_callback |-> IF acc.status_callback_url # NoCallback
                                     THEN acc.status_callback_url
                                     ELSE NoCallback,
                 out |-> out]
        sid == Sid(acc.nextSid + 1)
    IN  IF out = "ok"
        THEN [acc EXCEPT
                !.nextSid = @ + 1,
                !.sid_to_number = put(@, sid, e164),
                !.delivery = put(@, e164, queued_entry(loop, sid, content, vars_lote)),
                !.queued = Append(@, raw_str),
                !.calls = Append(@, call)]
        ELSE [acc EXCEPT
                !.delivery = put(@, e164,
                                 failed_entry(loop, SendErrorText, content, vars_lote)),
                !.failed_on_send =
                    IF loop = "personalizado"
                    THEN Append(@, [numero |-> raw_str, e164 |-> e164,
                                    reason |-> SendErrorText])
                    ELSE @,
                !.calls = Append(@, call)]

\* loop_body without the  continue  after a failed normalization: the item is
\* recorded as invalid and then sent to its digits
loop_body_no_continue(loop, content, variables_globales, item, out, i, acc) ==
    IF raises_on_item(loop, item)
    THEN [acc EXCEPT !.raised = TRUE]
    ELSE
    LET raw_str == raw_str_of(loop, item)
        vars_lote == vars_of(loop, item, variables_globales)
        n == normalize_to_e164(raw_str, DEFAULT_REGION)
    IN  IF raw_str = <<>>
        THEN acc
        ELSE IF ~n.ok
        THEN send_step(loop, content, vars_lote, raw_str,
                       <<"+">> \o SelectSeq(raw_str, LAMBDA ch : ch \in Digits),
                       out, i,
                       [acc EXCEPT !.invalid_by_lookup =
                                      Append(@, [raw |-> raw_str, e |-> n.err])])
        ELSE send_step(loop, content, vars_lote, raw_str, n.e164, out, i, acc)

\* loop_body without the  if not raw_str: continue : a blank item goes on to
\* the normalizer, which raises on it
loop_body_no_skip(loop, content, variables_globales, item, out, i, acc) ==
    IF raises_on_item(loop, item)
    THEN [acc EXCEPT !.raised = TRUE]
    ELSE
    LET raw_str == raw_str_of(loop, item)
        vars_lote == vars_of(loop, item, variables_globales)
        n == normalize_to_e164(raw_str, DEFAULT_REGION)
    IN  IF ~n.ok
        THEN [acc EXCEPT !.invalid_by_lookup =
                            Append(@, [raw |-> raw_str, e |-> n.err])]
        ELSE send_step(loop, content, vars_lote, raw_str, n.e164, out, i, acc)

\* One pass of the loop body.
loop_body(loop, content, variables_globales, item, out, i, acc) ==
    IF raises_on_item(loop, item)
    THEN [acc EXCEPT !.raised = TRUE]
    ELSE
    LET raw_str == raw_str_of(loop, item)
        vars_lote == vars_of(loop, item, variables_globales)
        n == normalize_to_e164(raw_str, DEFAULT_REGION)
    IN  IF raw_str = <<>>
        THEN acc
        ELSE IF ~n.ok
        THEN [acc EXCEPT !.invalid_by_lookup =
                            Append(@, [raw |-> raw_str, e |-> n.err])]
        ELSE send_step(loop, content, vars_lote, raw_str, n.e164, out, i, acc)

\* for item in items: ...   (an uncaught exception ends the loop)
RECURSIVE batch_loop(_, _, _, _, _, _, _)
batch_loop(loop, content, variables_globales, items, outs, i, acc) ==
    IF i > Len(items) \/ acc.raised
    THEN acc
    ELSE batch_loop(loop, content, variables_globales, items, outs, i + 1,
                    loop_body(loop, content, variables_globales,
                              items[i], outs[i], i, acc))

(* ------------------------------ inputs -------------------------------- *)
Tel1 == <<"6", "1", "4", "2", "2", "4", "9", "6", "5", "4">>
Tel2 == <<"2", "4", "6", "3", "0", "9", "5", "2", "9", "1">>
TelBad == <<"b", "a", "d", "-", "n", "u", "m", "b", "e", "r">>
TelBlank == <<" ">>

RawNumbers == {Tel1, Tel2, TelBad, TelBlank}

Texts == {<<"h", "o", "l", "a">>, <<" ">>}
ContentSids == {<<"H", "X", "1">>, <<" ">>}
GlobalVars == {EmptyVars, "{1:Todos}"}

\* an element of "lotes": a JSON object with telefono and vars, or something
\* that is not an object
Lote(tel, v) == [mapping |-> TRUE, telefono |-> tel, vars |-> v]
NotAnObject == [mapping |-> FALSE, telefono |-> <<>>, vars |-> EmptyVars]
Lotes == {Lote(Tel1, "{1:Ana}"), Lote(Tel2, EmptyVars), Lote(TelBad, EmptyVars),
          Lote(TelBlank, "{1:Ana}"), NotAnObject}

ListsOf(S) == UNION {[1..k -> S] : k \in 0..(MaxItems - nitems)}

reaches_send(loop, item) ==
    /\ ~raises_on_item(loop, item)
    /\ raw_str_of(loop, item) # <<>>
    /\ normalize_to_e164(raw_str_of(loop, item), DEFAULT_REGION).ok

\* one outcome per item that reaches the send
OutcomesFor(loop, items) ==
    {outs \in [1..Len(items) -> Outcomes] :
        \A i \in 1..Len(items) : ~reaches_send(loop, items[i]) => outs[i] = "ok"}

MessageSids == {None} \cup {Sid(n) : n \in 1..MaxItems}
MessageStatuses == {"delivered", "failed", "undelivered", "sent", None}
\* ErrorCode, ErrorMessage
ErrorFields == {<<None, None>>, <<"30008", None>>, <<None, "Unknown error">>}

(* ------------------------------ handlers ------------------------------ *)
\* a thread that is serving no request
IdleDispatcher ==
    [pc |-> "idle", op |-> "none", data |-> EmptyDict, loop |-> "bulk",
     content |-> <<>>, variables_globales |-> EmptyVars, items |-> <<>>, i |-> 0,
     raw_str |-> <<>>, vars_lote |-> EmptyVars, e164 |-> <<>>, sid |-> None,
     invalid_by_lookup |-> <<>>, queued |-> <<>>, failed_on_send |-> <<>>,
     status_callback_url |-> NoCallback]

IdleCallback ==
    [pc |-> "idle",
     form |-> [MessageSid |-> None, MessageStatus |-> None,
               ErrorCode |-> None, ErrorMessage |-> None],
     e164 |-> <<>>, prev |-> EmptyDict, aliased |-> FALSE]

NoRace ==
    [ran |-> FALSE, clean |-> FALSE, ev0 |-> 0,
     base |-> [sid_to_number |-> EmptyDict, delivery |-> EmptyDict, nextSid |-> 0]]

\* STATE as the module creates it, no request served yet
InitState ==
    /\ sid_to_number = EmptyDict
    /\ delivery = EmptyDict
    /\ last_summary = EmptyDict
    /\ nextSid = 0
    /\ request = [op |-> "none"]
    /\ response = [code |-> 0, body |-> EmptyDict]
    /\ calls = <<>>
    /\ nitems = 0
    /\ nevents = 0
    /\ dispatcher = IdleDispatcher
    /\ callback = IdleCallback
    /\ race = NoRace

\* a process started without PUBLIC_BASE_URL in its environment:
\* (os.getenv("PUBLIC_BASE_URL") or "").strip()
Init ==
    /\ InitState
    /\ PUBLIC_BASE_URL = strip(<<>>)

\* What a dispatch handler leaves behind once its loop has run: the STATE
\* entries the loop wrote, and either the handler's response or, when an
\* exception left the loop, Flask's 500.
finish_batch(data, opname, items, r, body, summary) ==
    /\ nitems' = nitems + Len(items)
    /\ request' = [op |-> opname, data |-> data]
    /\ sid_to_number' = r.sid_to_number
    /\ delivery' = r.delivery
    /\ nextSid' = r.nextSid
    /\ calls' = r.calls
    /\ last_summary' = IF r.raised THEN last_summary ELSE summary
    /\ response' = IF r.raised
                   THEN [code |-> 500, body |-> EmptyDict]
                   ELSE [code |-> 200, body |-> body]
    /\ UNCHANGED PUBLIC_BASE_URL
    /\ UNCHANGED <<nevents, threads>>

\* a dispatch handler's early return with status 400
reject(data, opname, n, error) ==
    /\ request' = [op |-> opname, data |-> data]
    /\ response' = [code |-> 400, body |-> [error |-> error]]
    /\ calls' = <<>>
    /\ nitems' = nitems + n
    /\ UNCHANGED PUBLIC_BASE_URL
    /\ UNCHANGED <<store, nextSid, nevents, threads>>

\* send_bulk's check with the test of the message left out
bulk_request_invalid_lax(body, nums) == nums = <<>>

\* if not body or not isinstance(nums, list) or not nums
bulk_request_invalid(body, nums) == body = <<>> \/ nums = <<>>

send_bulk(mensaje, telefonos, outs) ==
    LET data == [mensaje |-> mensaje, telefonos |-> telefonos]
        body == strip(mensaje)
        r == batch_loop("bulk", body, EmptyVars, telefonos, outs, 1,
                        loop_start(sid_to_number, delivery, nextSid))
        summary == [invalid_by_lookup |-> r.invalid_by_lookup,
                    queued |-> r.queued,
                    skipped_not_mobile |-> <<>>,
                    skipped_detail |-> <<>>,
                    note |-> "/send-bulk"]
    IN  IF bulk_request_invalid(body, telefonos)
        THEN reject(data, "send_bulk", Len(telefonos),
                    "Proporciona 'mensaje' y lista 'telefonos'")
        ELSE finish_batch(data, "send_bulk", telefonos, r, summary, summary)

send_template(content, variables, telefonos, lotes, outs) ==
    LET data == [content_sid |-> content, variables |-> variables,
                 telefonos |-> telefonos, lotes |-> lotes]
        content_sid == strip(content)
        variables_globales == Or(variables, EmptyVars)
        usar_lotes == lotes # <<>>
        r == IF usar_lotes
             THEN batch_loop("lotes", content_sid, variables_globales, lotes, outs, 1,
                             loop_start(sid_to_number, delivery, nextSid))
             ELSE batch_loop("nums", content_sid, variables_globales, telefonos, outs, 1,
                             loop_start(sid_to_number, delivery, nextSid))
        body == [debug |-> "SEND-TEMPLATE v4",
                 received |-> data,
                 invalid_by_lookup |-> r.invalid_by_lookup,
                 queued |-> r.queued,
                 skipped_not_mobile |-> <<>>,
                 skipped_detail |-> <<>>,
                 note |-> "/send-template"]
    IN  IF content_sid = <<>>
           THEN reject(data, "send_template", Len(telefonos) + Len(lotes),
                       "Proporciona 'content_sid'")
           ELSE IF ~usar_lotes /\ telefonos = <<>>
           THEN reject(data, "send_template", 0, "Proporciona lista 'telefonos' o 'lotes'")
           ELSE finish_batch(data, "send_template", IF usar_lotes THEN lotes ELSE telefonos,
                             r, body, last_summary)

send_template_bulk_personalizado(content, lotes, outs) ==
    LET data == [content_sid |-> content, lotes |-> lotes]
        content_sid == strip(content)
        r == batch_loop("personalizado", content_sid, EmptyVars, lotes, outs, 1,
                        loop_start(sid_to_number, delivery, nextSid))
        body == [debug |-> "SEND-TEMPLATE-BULK-PERSONALIZADO v4",
                 received |-> data,
                 invalid_by_lookup |-> r.invalid_by_lookup,
                 queued |-> r.queued,
                 failed_on_send |-> r.failed_on_send,
                 skipped_not_mobile |-> <<>>,
                 skipped_detail |-> <<>>,
                 note |-> "/send-template-bulk-personalizado"]
    IN  IF content_sid = <<>>
           THEN reject(data, "send_template_bulk_personalizado", Len(lotes),
                       "Falta 'content_sid'")
           ELSE IF lotes = <<>>
           THEN reject(data, "send_template_bulk_personalizado", 0, "Falta lista 'lotes'")
           ELSE finish_batch(data, "send_template_bulk_personalizado", lotes, r, body,
                             last_summary)

\* status_update that appends the new status to the old one
status_update_append(prev, sid, status, error_code, error_msg) ==
    LET upd == put(put(prev, "status", get(prev, "status", "") \o "," \o status),
                   "sid", sid)
    IN  IF Truthy(error_code) \/ Truthy(error_msg)
        THEN put(put(upd, "error_code", error_code), "error_message", error_msg)
        ELSE upd

\* status_update that builds a new entry instead of updating the old one
status_update_fresh(prev, sid, status, error_code, error_msg) ==
    LET upd == [status |-> status, sid |-> sid]
    IN  IF Truthy(error_code) \/ Truthy(error_msg)
        THEN put(put(upd, "error_code", error_code), "error_message", error_msg)
        ELSE upd

\* The entry the status callback writes for a sid it resolves.
status_update(prev, sid, status, error_code, error_msg) ==
    LET upd == put(put(prev, "status", status), "sid", sid)
    IN  IF Truthy(error_code) \/ Truthy(error_msg)
        THEN put(put(upd, "error_code", error_code), "error_message", error_msg)
        ELSE upd

\* status_applied without the  if e164:  guard; the key None is written <<>>
status_applied_unguarded(s2n, dlv, sid, status, error_code, error_msg) ==
    LET e164 == IF sid \in DOMAIN s2n THEN s2n[sid] ELSE <<>>
    IN  put(dlv, e164,
            status_update(get(dlv, e164, EmptyDict), sid, status,
                          error_code, error_msg))

\* STATE["delivery"] after the callback
status_applied(s2n, dlv, sid, status, error_code, error_msg) ==
    LET e164 == get(s2n, sid, None)
    IN  IF sid \in DOMAIN s2n
        THEN put(dlv, e164,
                 status_update(get(dlv, e164, EmptyDict), sid, status,
                               error_code, error_msg))
        ELSE dlv

twilio_status(sid, status, error_code, error_msg) ==
    /\ nevents < MaxEvents
    /\ nevents' = nevents + 1
    /\ request' = [op |-> "twilio_status",
                   form |-> [MessageSid |-> sid, MessageStatus |-> status,
                             ErrorCode |-> error_code, ErrorMessage |-> error_msg]]
    /\ delivery' = status_applied(sid_to_number, delivery, sid, status,
                                  error_code, error_msg)
    /\ response' = [code |-> 200, body |-> EmptyDict]
    /\ calls' = <<>>
    /\ UNCHANGED PUBLIC_BASE_URL
    /\ UNCHANGED <<sid_to_number, last_summary, nextSid, nitems, threads>>

\* report_bucket with failed_on_send missing from the second tuple
report_bucket_short(info) ==
    LET st == get(info, "status", "")
    IN  IF st \in {"delivered"} THEN "delivered"
        ELSE IF st \in {"failed", "undelivered"}
        THEN "failed_or_undelivered"
        ELSE "pending"

\* the bucket the report's if/elif/else puts an entry in
report_bucket(info) ==
    LET st == get(info, "status", "")
    IN  IF st \in {"delivered"} THEN "delivered"
        ELSE IF st \in {"failed", "undelivered", "failed_on_send"}
        THEN "failed_or_undelivered"
        ELSE "pending"

report_body(dlv, summary) ==
    [delivered |-> {e164 \in DOMAIN dlv : report_bucket(dlv[e164]) = "delivered"},
     failed_or_undelivered |->
        {e164 \in DOMAIN dlv : report_bucket(dlv[e164]) = "failed_or_undelivered"},
     pending |-> {e164 \in DOMAIN dlv : report_bucket(dlv[e164]) = "pending"},
     raw |-> dlv,
     last_summary |-> summary]

report ==
    /\ request' = [op |-> "report"]
    /\ response' = [code |-> 200, body |-> report_body(delivery, last_summary)]
    /\ calls' = <<>>
    /\ UNCHANGED PUBLIC_BASE_URL
    /\ UNCHANGED <<store, nextSid, nitems, nevents, threads>>

Next ==
    \/ \E mensaje \in Texts, telefonos \in ListsOf(RawNumbers) :
            \E outs \in OutcomesFor("bulk", telefonos) :
                send_bulk(mensaje, telefonos, outs)
    \/ \E content \in ContentSids, variables \in GlobalVars,
          telefonos \in ListsOf(RawNumbers) :
            \E outs \in OutcomesFor("nums", telefonos) :
                send_template(content, variables, telefonos, <<>>, outs)
    \/ \E content \in ContentSids, variables \in GlobalVars,
          lotes \in ListsOf(Lotes) \ {<<>>} :
            \E outs \in OutcomesFor("lotes", lotes) :
                send_template(content, variables, <<>>, lotes, outs)
    \/ \E content \in ContentSids, lotes \in ListsOf(Lotes) :
            \E outs \in OutcomesFor("personalizado", lotes) :
                send_template_bulk_personalizado(content, lotes, outs)
    \/ \E sid \in MessageSids, status \in MessageStatuses, err \in ErrorFields :
            twilio_status(sid, status, err[1], err[2])
    \/ report

Spec == Init /\ [][Next]_vars

(* ------------------- the lookup console (debug_lookup) ----------------- *)
\* /debug-lookup runs normalize_to_e164 on each element of "telefonos" and
\* reports what it returned or raised next to the input; it does not touch
\* STATE.  It is the handler through which the normalizer is observed on
\* arbitrary text.

\* length of the "telefonos" list of a lookup request
NormLen == 2

TelPlusMX == <<"+", "5", "2", "6", "1", "4", "2", "2", "4", "9", "6", "5", "4">>
TelPlusUK == <<"+", "4", "4", "2", "0", "7", "9", "4", "6", "0", "9", "5", "8">>
TelPlusSG == <<"+", "6", "5", "9", "1", "2", "3", "4", "5", "6", "7">>
Tel52 == <<"5", "2", "2", "4", "6", "3", "0", "9", "5", "2", "9", "1">>
TelShort == <<"1", "2", "3", "4", "5">>
TelZero == <<"0", "1", "2", "3", "4", "5", "6", "7", "8", "9">>
Tel52Zero == <<"5", "2", "0", "1", "2", "3", "4", "5", "6", "7", "8", "9">>

LookupNumbers ==
    {Tel1, TelPlusMX, TelPlusUK, TelPlusSG, Tel52, TelShort, TelZero, Tel52Zero,
     TelBad, TelBlank}

\* lookup_is_valid: (True, line_type), or (False, None) when Twilio refuses
LookupOutcomes == {<<TRUE, "mobile">>, <<TRUE, None>>, <<FALSE, None>>}

\* the item the loop appends for one element
debug_item(raw, lk) ==
    LET n == normalize_to_e164(raw, DEFAULT_REGION)
    IN  IF n.ok
        THEN [input |-> raw, e164 |-> n.e164,
              lookup_valid |-> lk[1], line_type |-> lk[2]]
        ELSE [input |-> raw, error |-> n.err]

debug_lookup(telefonos, lks) ==
    /\ request' = [op |-> "debug_lookup", data |-> [telefonos |-> telefonos]]
    /\ response' = [code |-> 200,
                    body |-> [i \in 1..Len(telefonos) |->
                                 debug_item(telefonos[i], lks[i])]]
    /\ calls' = <<>>
    /\ UNCHANGED PUBLIC_BASE_URL
    /\ UNCHANGED <<store, nextSid, nitems, nevents, threads>>

\* one lookup outcome per element that normalizes
LookupsFor(telefonos) ==
    {lks \in [1..Len(telefonos) -> LookupOutcomes] :
        \A i \in 1..Len(telefonos) :
            ~normalize_to_e164(telefonos[i], DEFAULT_REGION).ok
                => lks[i] = <<FALSE, None>>}

NormNext ==
    \E telefonos \in UNION {[1..k -> LookupNumbers] : k \in 0..NormLen} :
        \E lks \in LookupsFor(telefonos) :
            debug_lookup(telefonos, lks)

NormSpec == Init /\ [][NormNext]_vars

(* ------------------ two request threads (ConcSpec) --------------------- *)
\* One thread serves dispatch requests and one serves status callbacks,
\* each one request after another.  A step is one access to STATE or one
\* call of the provider, together with the work on locals that follows it;
\* the steps of the two threads interleave freely.  A dict read out of
\* STATE["delivery"] is the object the ledger holds: callback.aliased says
\* whether the ledger still holds the object the callback has in prev.

ConcNumbers == {Tel1, TelBad, TelBlank}
ConcLotes == {Lote(Tel1, "{1:Ana}"), Lote(TelBad, EmptyVars), NotAnObject}
ConcStatuses == {"delivered", "failed"}
ConcErrorFields == {<<None, None>>, <<"30008", "Unknown error">>}

ConcLists(S) == UNION {[1..k -> S] : k \in 1..(MaxItems - nitems)}

\* the handler's entry up to the loop: the request is read and validated
\* (the requests drawn here are valid), the locals are set
d_begin(opname, data, loop, content, variables_globales, items) ==
    /\ dispatcher.pc = "idle"
    /\ strip(content) # <<>>
    /\ items # <<>>
    /\ dispatcher' = [IdleDispatcher EXCEPT
                        !.pc = "item", !.op = opname, !.data = data,
                        !.loop = loop, !.content = strip(content),
                        !.variables_globales = variables_globales,
                        !.items = items, !.i = 1,
                        !.status_callback_url = status_callback_url]
    /\ race' = [ran |-> TRUE, clean |-> callback.pc = "idle", ev0 |-> nevents,
                base |-> [sid_to_number |-> sid_to_number, delivery |-> delivery,
                          nextSid |-> nextSid]]
    /\ calls' = <<>>
    /\ nitems' = nitems + Len(items)
    /\ UNCHANGED PUBLIC_BASE_URL
    /\ UNCHANGED <<store, nextSid, request, response, nevents, callback>>

\* the head of the loop body: the item is read, trimmed and normalized
d_item ==
    /\ dispatcher.pc = "item"
    /\ dispatcher.i <= Len(dispatcher.items)
    /\ LET item == dispatcher.items[dispatcher.i]
           raw_str == raw_str_of(dispatcher.loop, item)
           n == normalize_to_e164(raw_str, DEFAULT_REGION)
       IN  dispatcher' =
             IF raises_on_item(dispatcher.loop, item)
             THEN [dispatcher EXCEPT !.pc = "crash"]
             ELSE IF raw_str = <<>>
             THEN [dispatcher EXCEPT !.i = @ + 1]
             ELSE IF ~n.ok
             THEN [dispatcher EXCEPT
                      !.invalid_by_lookup = Append(@, [raw |-> raw_str, e |-> n.err]),
                      !.i = @ + 1]
             ELSE [dispatcher EXCEPT
                      !.pc = "send", !.raw_str = raw_str, !.e164 = n.e164,
                      !.vars_lote = vars_of(dispatcher.loop, item,
                                            dispatcher.variables_globales)]
    /\ UNCHANGED PUBLIC_BASE_URL
    /\ UNCHANGED <<store, nextSid, request, response, calls, nitems, nevents,
                   callback, race>>

\* send_one_whatsapp*: the provider accepts the message and returns a sid,
\* or the call raises
d_send(out) ==
    /\ dispatcher.pc = "send"
    /\ calls' = Append(calls, [item |-> dispatcher.i,
                               to |-> with_whatsapp_prefix(dispatcher.e164),
                               content |-> dispatcher.content,
                               vars |-> dispatcher.vars_lote,
                               status_callback |->
                                   IF dispatcher.status_callback_url # NoCallback
                                   THEN dispatcher.status_callback_url
                                   ELSE NoCallback,
                               out |-> out])
    /\ IF out = "ok"
       THEN /\ nextSid' = nextSid + 1
            /\ dispatcher' = [dispatcher EXCEPT !.pc = "index",
                                                !.sid = Sid(nextSid + 1)]
       ELSE /\ nextSid' = nextSid
            /\ dispatcher' = [dispatcher EXCEPT !.pc = "except"]
    /\ UNCHANGED PUBLIC_BASE_URL
    /\ UNCHANGED <<store, request, response, nitems, nevents, callback, race>>

\* STATE["sid_to_number"][sid] = e164
d_index ==
    /\ dispatcher.pc = "index"
    /\ sid_to_number' = put(sid_to_number, dispatcher.sid, dispatcher.e164)
    /\ dispatcher' = [dispatcher EXCEPT !.pc = "entry"]
    /\ UNCHANGED PUBLIC_BASE_URL
    /\ UNCHANGED <<delivery, last_summary, nextSid, request, response, calls,
                   nitems, nevents, callback, race>>

\* STATE["delivery"][e164] = entry: the ledger holds a new object
d_assign(entry) ==
    /\ delivery' = put(delivery, dispatcher.e164, entry)
    /\ callback' = IF callback.e164 = dispatcher.e164
                   THEN [callback EXCEPT !.aliased = FALSE]
                   ELSE callback

\* the queued entry is assigned and the raw string appended to queued
d_entry ==
    /\ dispatcher.pc = "entry"
    /\ d_assign(queued_entry(dispatcher.loop, dispatcher.sid, dispatcher.content,
                             dispatcher.vars_lote))
    /\ dispatcher' = [dispatcher EXCEPT !.pc = "item", !.i = @ + 1,
                                        !.queued = Append(@, dispatcher.raw_str)]
    /\ UNCHANGED PUBLIC_BASE_URL
    /\ UNCHANGED <<sid_to_number, last_summary, nextSid, request, response, calls,
                   nitems, nevents, race>>

\* the except clause: the failed entry is assigned, and reported by the
\* personalizado loop
d_except ==
    /\ dispatcher.pc = "except"
    /\ d_assign(failed_entry(dispatcher.loop, SendErrorText, dispatcher.content,
                             dispatcher.vars_lote))
    /\ dispatcher' = [dispatcher EXCEPT
                        !.pc = "item", !.i = @ + 1,
                        !.failed_on_send =
                            IF dispatcher.loop = "personalizado"
                            THEN Append(@, [numero |-> dispatcher.raw_str,
                                            e164 |-> dispatcher.e164,
                                            reason |-> SendErrorText])
                            ELSE @]
    /\ UNCHANGED PUBLIC_BASE_URL
    /\ UNCHANGED <<sid_to_number, last_summary, nextSid, request, response, calls,
                   nitems, nevents, race>>

\* the JSON the handler returns
result_body(d) ==
    CASE d.op = "send_bulk" ->
            [invalid_by_lookup |-> d.invalid_by_lookup, queued |-> d.queued,
             skipped_not_mobile |-> <<>>, skipped_detail |-> <<>>,
             note |-> "/send-bulk"]
      [] d.op = "send_template" ->
            [debug |-> "SEND-TEMPLATE v4", received |-> d.data,
             invalid_by_lookup |-> d.invalid_by_lookup, queued |-> d.queued,
             skipped_not_mobile |-> <<>>, skipped_detail |-> <<>>,
             note |-> "/send-template"]
      [] OTHER ->
            [debug |-> "SEND-TEMPLATE-BULK-PERSONALIZADO v4", received |-> d.data,
             invalid_by_lookup |-> d.invalid_by_lookup, queued |-> d.queued,
             failed_on_send |-> d.failed_on_send,
             skipped_not_mobile |-> <<>>, skipped_detail |-> <<>>,
             note |-> "/send-template-bulk-personalizado"]

\* after the loop: send_bulk stores the summary; the result is returned
d_return ==
    /\ dispatcher.pc = "item"
    /\ dispatcher.i > Len(dispatcher.items)
    /\ last_summary' = IF dispatcher.op = "send_bulk"
                       THEN result_body(dispatcher) ELSE last_summary
    /\ request' = [op |-> dispatcher.op, data |-> dispatcher.data]
    /\ response' = [code |-> 200, body |-> result_body(dispatcher)]
    /\ dispatcher' = [dispatcher EXCEPT !.pc = "idle"]
    /\ UNCHANGED PUBLIC_BASE_URL
    /\ UNCHANGED <<sid_to_number, delivery, nextSid, calls, nitems, nevents,
                   callback, race>>

\* the AttributeError of lote.get leaves the handler: Flask answers 500
d_crash ==
    /\ dispatcher.pc = "crash"
    /\ request' = [op |-> dispatcher.op, data |-> dispatcher.data]
    /\ response' = [code |-> 500, body |-> EmptyDict]
    /\ dispatcher' = [dispatcher EXCEPT !.pc = "idle"]
    /\ UNCHANGED PUBLIC_BASE_URL
    /\ UNCHANGED <<store, nextSid, calls, nitems, nevents, callback, race>>

\* the form is read and  e164 = STATE["sid_to_number"].get(sid)
c_lookup(sid, status, error_code, error_msg) ==
    /\ callback.pc = "idle"
    /\ nevents < MaxEvents
    /\ nevents' = nevents + 1
    /\ callback' = [IdleCallback EXCEPT
                      !.pc = IF sid \in DOMAIN sid_to_number THEN "read" ELSE "return",
                      !.form = [MessageSid |-> sid, MessageStatus |-> status,
                                ErrorCode |-> error_code, ErrorMessage |-> error_msg],
                      !.e164 = IF sid \in DOMAIN sid_to_number
                               THEN sid_to_number[sid] ELSE <<>>]
    /\ UNCHANGED PUBLIC_BASE_URL
    /\ UNCHANGED <<store, nextSid, request, response, calls, nitems, dispatcher,
                   race>>

\* prev = STATE["delivery"].get(e164, {})
c_read ==
    /\ callback.pc = "read"
    /\ callback' = [callback EXCEPT
                      !.pc = "update",
                      !.prev = get(delivery, callback.e164, EmptyDict),
                      !.aliased = callback.e164 \in DOMAIN delivery]
    /\ UNCHANGED PUBLIC_BASE_URL
    /\ UNCHANGED <<store, nextSid, request, response, calls, nitems, nevents,
                   dispatcher, race>>

\* a change of prev in place: the ledger shows it if it holds that object
c_mutate(new, pc) ==
    /\ callback' = [callback EXCEPT !.prev = new, !.pc = pc]
    /\ delivery' = IF callback.aliased
                   THEN put(delivery, callback.e164, new) ELSE delivery
    /\ UNCHANGED PUBLIC_BASE_URL
    /\ UNCHANGED <<sid_to_number, last_summary, nextSid, request, response, calls,
                   nitems, nevents, dispatcher, race>>

\* prev.update({"status": status, "sid": sid})
c_update ==
    /\ callback.pc = "update"
    /\ c_mutate(put(put(callback.prev, "status", callback.form.MessageStatus),
                    "sid", callback.form.MessageSid),
                IF Truthy(callback.form.ErrorCode) \/ Truthy(callback.form.ErrorMessage)
                THEN "error_code" ELSE "write")

\* prev["error_code"] = error_code
c_error_code ==
    /\ callback.pc = "error_code"
    /\ c_mutate(put(callback.prev, "error_code", callback.form.ErrorCode),
                "error_message")

\* prev["error_message"] = error_msg
c_error_message ==
    /\ callback.pc = "error_message"
    /\ c_mutate(put(callback.prev, "error_message", callback.form.ErrorMessage),
                "write")

\* STATE["delivery"][e164] = prev
c_write ==
    /\ callback.pc = "write"
    /\ delivery' = put(delivery, callback.e164, callback.prev)
    /\ callback' = [callback EXCEPT !.pc = "return", !.aliased = TRUE]
    /\ UNCHANGED PUBLIC_BASE_URL
    /\ UNCHANGED <<sid_to_number, last_summary, nextSid, request, response, calls,
                   nitems, nevents, dispatcher, race>>

\* return ("", 200)
c_return ==
    /\ callback.pc = "return"
    /\ request' = [op |-> "twilio_status", form |-> callback.form]
    /\ response' = [code |-> 200, body |-> EmptyDict]
    /\ callback' = [callback EXCEPT !.pc = "idle"]
    /\ UNCHANGED PUBLIC_BASE_URL
    /\ UNCHANGED <<store, nextSid, calls, nitems, nevents, dispatcher, race>>

\* the sids the provider has issued: it reports on no other
IssuedSids == {Sid(n) : n \in 1..nextSid}

ConcNext ==
    \/ \E telefonos \in ConcLists(ConcNumbers) :
            d_begin("send_bulk",
                    [mensaje |-> <<"h", "o", "l", "a">>, telefonos |-> telefonos],
                    "bulk", <<"h", "o", "l", "a">>, EmptyVars, telefonos)
    \/ \E variables \in GlobalVars, telefonos \in ConcLists(ConcNumbers) :
            d_begin("send_template",
                    [content_sid |-> <<"H", "X", "1">>, variables |-> variables,
                     telefonos |-> telefonos, lotes |-> <<>>],
                    "nums", <<"H", "X", "1">>, Or(variables, EmptyVars), telefonos)
    \/ \E variables \in GlobalVars, lotes \in ConcLists(ConcLotes) :
            d_begin("send_template",
                    [content_sid |-> <<"H", "X", "1">>, variables |-> variables,
                     telefonos |-> <<>>, lotes |-> lotes],
                    "lotes", <<"H", "X", "1">>, Or(variables, EmptyVars), lotes)
    \/ \E lotes \in ConcLists(ConcLotes) :
            d_begin("send_template_bulk_personalizado",
                    [content_sid |-> <<"H", "X", "1">>, lotes |-> lotes],
                    "personalizado", <<"H", "X", "1">>, EmptyVars, lotes)
    \/ d_item
    \/ \E out \in Outcomes : d_send(out)
    \/ d_index
    \/ d_entry
    \/ d_except
    \/ d_return
    \/ d_crash
    \/ \E sid \in IssuedSids, status \in ConcStatuses, err \in ConcErrorFields :
            c_lookup(sid, status, err[1], err[2])
    \/ c_read
    \/ c_update
    \/ c_error_code
    \/ c_error_message
    \/ c_write
    \/ c_return

ConcSpec == Init /\ [][ConcNext]_vars

(* ================= reading the last request and its result ============= *)
DispatchOps == {"send_bulk", "send_template", "send_template_bulk_personalizado"}

\* the loop a dispatch request runs, its items, and what it sends
ReqLoop(req) ==
    CASE req.op = "send_bulk" -> "bulk"
      [] req.op = "send_template" ->
            IF req.data.lotes # <<>> THEN "lotes" ELSE "nums"
      [] OTHER -> "personalizado"

ReqItems(req) ==
    IF ReqLoop(req) \in LoteLoops THEN req.data.lotes ELSE req.data.telefonos

ReqContent(req) ==
    IF req.op = "send_bulk" THEN strip(req.data.mensaje) ELSE strip(req.data.content_sid)

ReqGlobals(req) ==
    IF req.op = "send_template" THEN req.data.variables ELSE EmptyVars

\* the last handler was a dispatch that got past validation
Dispatched == request.op \in DispatchOps /\ response.code # 400

\* item j is reached by the loop and is a JSON object where one is needed
Processed(req, j) ==
    \A m \in 1..j : ~raises_on_item(ReqLoop(req), ReqItems(req)[m])

NonBlank(req, j) == raw_str_of(ReqLoop(req), ReqItems(req)[j]) # <<>>

\* item j is processed and normalizes: it reaches the send
Sends(req, j) ==
    Processed(req, j) /\ reaches_send(ReqLoop(req), ReqItems(req)[j])

\* item j is processed, non-blank, and fails normalization
FailsNormalization(req, j) ==
    Processed(req, j) /\ NonBlank(req, j) /\ ~Sends(req, j)

RawOf(req, j) == raw_str_of(ReqLoop(req), ReqItems(req)[j])
AddrOf(req, j) == normalize_to_e164(RawOf(req, j), DEFAULT_REGION).e164
VarsOf(req, j) == vars_of(ReqLoop(req), ReqItems(req)[j], ReqGlobals(req))

\* a list of a response body, empty when the body has no such key
BucketOf(body, key) == get(body, key, <<>>)
Bucket(key) == BucketOf(response.body, key)

Count(seq, x) == Cardinality({n \in 1..Len(seq) : seq[n] = x})

\* how often the raw string x is reported in each list of a result
InInvalidOf(body, x) ==
    Cardinality({n \in 1..Len(BucketOf(body, "invalid_by_lookup")) :
                    BucketOf(body, "invalid_by_lookup")[n].raw = x})
InQueuedOf(body, x) == Count(BucketOf(body, "queued"), x)
InRejectionsOf(body, x) ==
    Cardinality({n \in 1..Len(BucketOf(body, "failed_on_send")) :
                    BucketOf(body, "failed_on_send")[n].numero = x})
InInvalid(x) == InInvalidOf(response.body, x)
InQueued(x) == InQueuedOf(response.body, x)
InRejections(x) == InRejectionsOf(response.body, x)

\* positions in a call log of the calls made for item j
CallsForIn(log, j) == {n \in 1..Len(log) : log[n].item = j}
CallsFor(j) == CallsForIn(calls, j)

\* the last call of the batch that targets the address of call n
LastCallTo(n) ==
    CHOOSE m \in 1..Len(calls) :
        /\ calls[m].to = calls[n].to
        /\ \A k \in 1..Len(calls) : calls[k].to = calls[n].to => k <= m

(* =============================== claims ================================ *)

\* C1 (batch isolation): after a dispatch in which the send for some item
\* raised, every later item that reaches the send step has exactly one send
\* call, made after the failed one with that item's address, content and
\* variables; the ledger entry of its address shows the outcome of the last
\* call to that address; and when the send succeeded the item is in the
\* queued list of the result.  No send failure ends the loop.
C1_BatchIsolation ==
    Dispatched =>
        \A n \in 1..Len(calls) : calls[n].out = "raise" =>
            \A j \in (calls[n].item + 1)..Len(ReqItems(request)) :
                Sends(request, j) =>
                    /\ Cardinality(CallsFor(j)) = 1
                    /\ \A m \in CallsFor(j) :
                        /\ m > n
                        /\ calls[m].to = with_whatsapp_prefix(AddrOf(request, j))
                        /\ calls[m].content = ReqContent(request)
                        /\ calls[m].vars = VarsOf(request, j)
                        /\ AddrOf(request, j) \in DOMAIN delivery
                        /\ delivery[AddrOf(request, j)].status =
                              IF calls[LastCallTo(m)].out = "ok"
                              THEN "queued" ELSE "failed_on_send"
                        /\ (response.code = 200 /\ calls[m].out = "ok") =>
                              Count(Bucket("queued"), RawOf(request, j)) >= 1

\* a batch whose first send raised and whose second item was then sent
C1_Witness ==
    /\ Dispatched
    /\ Len(calls) = 2
    /\ calls[1].out = "raise"
    /\ calls[2].out = "ok"
    /\ calls[1].to # calls[2].to
    /\ response.code = 200
    /\ Len(Bucket("queued")) = 1

\* C2 (exactly one outcome bucket per item): in the result of a dispatch,
\* every non-blank item is reported in exactly one of invalid_by_lookup,
\* queued and failed_on_send (counted per raw string, since the lists carry
\* the raw strings), and every send that raised has its record
\* {numero, e164, reason} in failed_on_send.
C2_ExactlyOneBucket ==
    (request.op \in DispatchOps /\ response.code = 200) =>
        /\ \A j \in 1..Len(ReqItems(request)) : NonBlank(request, j) =>
              InInvalid(RawOf(request, j)) + InQueued(RawOf(request, j))
                  + InRejections(RawOf(request, j))
              = Cardinality({k \in 1..Len(ReqItems(request)) :
                                NonBlank(request, k)
                                /\ RawOf(request, k) = RawOf(request, j)})
        /\ \A n \in 1..Len(calls) : calls[n].out = "raise" =>
              \E k \in 1..Len(Bucket("failed_on_send")) :
                  /\ Bucket("failed_on_send")[k].numero = RawOf(request, calls[n].item)
                  /\ Bucket("failed_on_send")[k].e164 = AddrOf(request, calls[n].item)
                  /\ Bucket("failed_on_send")[k].reason = SendErrorText
        /\ Len(Bucket("failed_on_send"))
              = Cardinality({n \in 1..Len(calls) : calls[n].out = "raise"})

\* the items of the request that reach the send
Senders(req) == {j \in 1..Len(ReqItems(req)) : Sends(req, j)}

\* the ledger and the sid index hold exactly what the calls of the last
\* dispatch produced
LedgerIsThisBatch ==
    /\ DOMAIN delivery = {AddrOf(request, j) : j \in Senders(request)}
    /\ \A j \in Senders(request) :
          /\ Cardinality(CallsFor(j)) = 1
          /\ \A n \in CallsFor(j) :
                LET entry == delivery[AddrOf(request, j)]
                IN  IF calls[n].out = "ok"
                    THEN /\ entry.status = "queued"
                         /\ "sid" \in DOMAIN entry
                         /\ entry.sid \in DOMAIN sid_to_number
                         /\ sid_to_number[entry.sid] = AddrOf(request, j)
                         /\ response.code = 200 => InQueued(RawOf(request, j)) = 1
                    ELSE /\ entry.status = "failed_on_send"
                         /\ "sid" \notin DOMAIN entry
                         /\ InQueued(RawOf(request, j)) = 0
    /\ Cardinality(DOMAIN sid_to_number)
          = Cardinality({n \in 1..Len(calls) : calls[n].out = "ok"})

DistinctAddresses(req) ==
    \A j, k \in Senders(req) : j # k => AddrOf(req, j) # AddrOf(req, k)

\* C3 (ledger shape after a batch): a dispatch that starts on an empty
\* ledger and whose items normalize to pairwise distinct addresses leaves
\* exactly one entry per item that reached the send: queued, with the sid
\* the provider returned, which the sid index maps back to the address,
\* when the send returned; failed_on_send, with no sid, when it raised.
\* Items that failed normalization have no entry.
C3_LedgerShape ==
    [][(delivery = EmptyDict /\ Dispatched' /\ DistinctAddresses(request'))
        => LedgerIsThisBatch']_vars

\* the first dispatch of a run, with one item sent and one whose send raised
C3_Witness ==
    /\ Dispatched
    /\ nevents = 0
    /\ nitems = Len(ReqItems(request))
    /\ Len(calls) = 2
    /\ calls[1].out = "ok"
    /\ calls[2].out = "raise"
    /\ Cardinality(DOMAIN delivery) = 2
    /\ \E a \in DOMAIN delivery : delivery[a].status = "queued"
    /\ \E a \in DOMAIN delivery : delivery[a].status = "failed_on_send"

\* the last handler was the status callback, for a sid the index resolves
StatusResolved ==
    /\ request.op = "twilio_status"
    /\ request.form.MessageSid \in DOMAIN sid_to_number

\* C4 (unknown-id status event): a status callback whose MessageSid is not a
\* key of sid_to_number (or is missing) leaves delivery, sid_to_number and
\* last_summary as they were and is answered with 200.
C4_UnknownSidNoOp ==
    [][(request'.op = "twilio_status"
        /\ request'.form.MessageSid \notin DOMAIN sid_to_number)
        => (store' = store /\ response'.code = 200)]_vars

\* a callback for a sid the index does not hold, received with entries in
\* the ledger
C4_Witness ==
    /\ request.op = "twilio_status"
    /\ request.form.MessageSid # None
    /\ request.form.MessageSid \notin DOMAIN sid_to_number
    /\ request.form.MessageStatus = "delivered"
    /\ delivery # EmptyDict
    /\ response.code = 200

\* serving the callback (sid, status, err) twice from the current state
\* gives the ledger that serving it once gives
IdempotentHere ==
    \A sid \in MessageSids, status \in MessageStatuses, err \in ErrorFields :
        LET once == status_applied(sid_to_number, delivery, sid, status,
                                   err[1], err[2])
        IN  status_applied(sid_to_number, once, sid, status, err[1], err[2]) = once

\* C5 (status-event idempotence): from every reachable state, applying a
\* status event (MessageSid, MessageStatus, ErrorCode, ErrorMessage) twice
\* gives the same delivery ledger as applying it once; and in every run,
\* when the callback that was just served is served again with the same
\* form, delivery and sid_to_number do not change.
C5_StatusIdempotent ==
    /\ []IdempotentHere
    /\ [][(request.op = "twilio_status" /\ request' = request
           /\ nevents' = nevents + 1)
           => (delivery' = delivery /\ sid_to_number' = sid_to_number)]_vars

\* two callbacks served, the last one resolved, carrying an error, and
\* visible in the entry
C5_Witness ==
    /\ StatusResolved
    /\ nevents = 2
    /\ request.form.ErrorCode # None
    /\ LET entry == delivery[sid_to_number[request.form.MessageSid]]
       IN  /\ entry.status = request.form.MessageStatus
           /\ entry.status = "failed"
           /\ entry.error_code = request.form.ErrorCode

\* the bucket the specification gives a status
BucketOfStatus(st) ==
    IF st = "delivered" THEN "delivered"
    ELSE IF st \in {"failed", "undelivered", "failed_on_send"}
    THEN "failed_or_undelivered"
    ELSE "pending"

ReportKeys == {"delivered", "failed_or_undelivered", "pending"}

\* C6 (report partition): in every reachable state the report lists every
\* address of the ledger in exactly one of delivered, failed_or_undelivered
\* and pending, the one its current status selects, and lists no address
\* that is not in the ledger.
C6_ReportPartition ==
    LET rep == report_body(delivery, last_summary)
    IN  /\ \A a \in DOMAIN delivery : \A key \in ReportKeys :
              a \in rep[key] <=>
                  key = BucketOfStatus(get(delivery[a], "status", ""))
        /\ \A key \in ReportKeys : rep[key] \subseteq DOMAIN delivery
        /\ rep.raw = delivery

\* a report returned with a delivered address and a failed_on_send address
C6_Witness ==
    /\ request.op = "report"
    /\ response.body.delivered # {}
    /\ \E a \in response.body.failed_or_undelivered :
          delivery[a].status = "failed_on_send"
    /\ response.body.pending = {}

\* C7 (status reconciliation): a callback (M, s) for a sid M the index maps
\* to address A leaves A's entry with status s and sid M and with its
\* channel, template and vars as before, and the report built from the
\* resulting ledger lists A in the bucket of s.
C7_StatusReconciled ==
    [][(request'.op = "twilio_status"
        /\ request'.form.MessageSid \in DOMAIN sid_to_number)
        => LET form == request'.form
               a == sid_to_number[form.MessageSid]
               rep == report_body(delivery', last_summary')
           IN  /\ a \in DOMAIN delivery
               /\ a \in DOMAIN delivery'
               /\ delivery'[a].status = form.MessageStatus
               /\ delivery'[a].sid = form.MessageSid
               /\ \A key \in {"channel", "template", "vars"} :
                     /\ key \in DOMAIN delivery'[a] <=> key \in DOMAIN delivery[a]
                     /\ key \in DOMAIN delivery[a]
                          => delivery'[a][key] = delivery[a][key]
               /\ a \in rep[BucketOfStatus(form.MessageStatus)]
               /\ form.MessageStatus = "delivered" => a \in rep.delivered]_vars

\* a report that lists as delivered an address a template was sent to
C7_Witness ==
    /\ request.op = "report"
    /\ nevents >= 1
    /\ \E a \in response.body.delivered :
          /\ "template" \in DOMAIN response.body.raw[a]
          /\ response.body.raw[a].sid \in DOMAIN sid_to_number
          /\ sid_to_number[response.body.raw[a].sid] = a

\* the request has a blank message or template id, or no items
BlankOrEmpty(req) == ReqContent(req) = <<>> \/ ReqItems(req) = <<>>

\* C8 (validation fails fast): a dispatch request with an empty or
\* whitespace-only message or template id, or with an empty item list, is
\* answered with 400, makes no send call and leaves delivery, sid_to_number
\* and last_summary unchanged.
C8_ValidationFailsFast ==
    [][(request'.op \in DispatchOps /\ BlankOrEmpty(request'))
        => (response'.code = 400 /\ calls' = <<>> /\ store' = store
            /\ nextSid' = nextSid)]_vars

\* a whitespace-only message with a valid number, rejected with entries in
\* the ledger
C8_Witness ==
    /\ request.op = "send_bulk"
    /\ request.data.mensaje = <<" ">>
    /\ \E j \in 1..Len(ReqItems(request)) : Sends(request, j)
    /\ response.code = 400
    /\ delivery # EmptyDict

C10_SummaryIsLastResult ==
    (request.op \in DispatchOps /\ response.code = 200) =>
        LET stored == report_body(delivery, last_summary).last_summary
        IN  \A key \in {"invalid_by_lookup", "queued", "failed_on_send"} :
                get(stored, key, <<>>) = Bucket(key)

\* C11 (plus-prefixed passthrough): for every element of a lookup request
\* that starts with '+', the normalizer does not raise and returns the
\* element unchanged.
C11_PlusPassthrough ==
    request.op = "debug_lookup" =>
        \A i \in 1..Len(request.data.telefonos) :
            LET raw == request.data.telefonos[i]
            IN  (raw # <<>> /\ raw[1] = "+") =>
                    /\ "e164" \in DOMAIN response.body[i]
                    /\ response.body[i].e164 = raw

\* C12 (run to completion): every dispatch that passes validation is
\* answered with 200, and its loop visits every item in order: each item
\* that is non-blank and normalizes has exactly one send call, and the calls
\* are made in the order of the items, whatever the other items are
\* (an item that is not a JSON object included).
C12_RunToCompletion ==
    (request.op \in DispatchOps /\ ~BlankOrEmpty(request)) =>
        /\ response.code = 200
        /\ \A j \in 1..Len(ReqItems(request)) :
              reaches_send(ReqLoop(request), ReqItems(request)[j])
                  => Cardinality(CallsFor(j)) = 1
        /\ \A m, n \in 1..Len(calls) : m < n => calls[m].item < calls[n].item

\* a step in which the status callback was served
StatusStep == request'.op = "twilio_status" /\ nevents' = nevents + 1

\* C13 (failed_on_send is terminal under status events): serving a status
\* callback never changes the status of an entry that is failed_on_send and
\* never gives it a sid, also when an earlier sid of the same address is
\* still in sid_to_number.
C13_FailedOnSendTerminal ==
    [][StatusStep =>
        \A a \in DOMAIN delivery :
            get(delivery[a], "status", "") = "failed_on_send" =>
                /\ a \in DOMAIN delivery'
                /\ get(delivery'[a], "status", "") = "failed_on_send"
                /\ "sid" \notin DOMAIN delivery'[a]]_vars

\* the statuses the specification gives a ledger entry
LedgerStatuses == {"queued", "delivered", "failed", "undelivered", "failed_on_send"}

\* C14 (status domain): in every reachable state the status of every ledger
\* entry is one of queued, delivered, failed, undelivered, failed_on_send.
C14_StatusDomain ==
    \A a \in DOMAIN delivery :
        /\ "status" \in DOMAIN delivery[a]
        /\ delivery[a].status \in LedgerStatuses

\* C15 (status-event transitions): a status callback changes the status of
\* an entry only if the entry is queued, and then only to delivered, failed
\* or undelivered; an entry that is delivered, failed or undelivered keeps
\* its status.
C15_StatusTransitions ==
    [][StatusStep =>
        \A a \in DOMAIN delivery :
            get(delivery'[a], "status", "") # get(delivery[a], "status", "") =>
                /\ get(delivery[a], "status", "") = "queued"
                /\ get(delivery'[a], "status", "")
                      \in {"delivered", "failed", "undelivered"}]_vars

\* the error fields of an entry and the form fields that carry them
ErrorFieldOf == [error_code |-> "ErrorCode", error_message |-> "ErrorMessage"]

\* C16 (error fields are preserved): when a resolved status callback is
\* applied, an error field the form carries is set to the form's value, and
\* an error field the form omits keeps the value it had (none, if the entry
\* had none).
C16_ErrorFieldsPreserved ==
    [][(StatusStep /\ request'.form.MessageSid \in DOMAIN sid_to_number) =>
        LET a == sid_to_number[request'.form.MessageSid]
        IN  \A f \in DOMAIN ErrorFieldOf :
                IF request'.form[ErrorFieldOf[f]] # None
                THEN get(delivery'[a], f, None) = request'.form[ErrorFieldOf[f]]
                ELSE get(delivery'[a], f, None) = get(delivery[a], f, None)]_vars

\* the loop reads the item and finds its phone field blank
IsBlank(loop, item) == ~raises_on_item(loop, item) /\ raw_str_of(loop, item) = <<>>

HasBlank(req) ==
    \E j \in 1..Len(ReqItems(req)) : IsBlank(ReqLoop(req), ReqItems(req)[j])

\* the positions of the items that are not blank, in order
Kept(req) ==
    SelectSeq([j \in 1..Len(ReqItems(req)) |-> j],
              LAMBDA j : ~IsBlank(ReqLoop(req), ReqItems(req)[j]))

\* what the provider did with the send for item j, as the call log shows it
OutOfItem(log, j) ==
    IF CallsForIn(log, j) = {} THEN "ok"
    ELSE log[CHOOSE n \in CallsForIn(log, j) : TRUE].out

\* the loop of the request run, from the given STATE, on the items of the
\* request without the blank ones, the provider answering each item as in log
WithoutBlanks(req, log, s2n, dlv, issued) ==
    batch_loop(ReqLoop(req), ReqContent(req), Or(ReqGlobals(req), EmptyVars),
               [k \in 1..Len(Kept(req)) |-> ReqItems(req)[Kept(req)[k]]],
               [k \in 1..Len(Kept(req)) |-> OutOfItem(log, Kept(req)[k])],
               1, loop_start(s2n, dlv, issued))

\* no call is made for a blank item and no list of the result names it
BlanksLeaveNoTrace(req, resp, log) ==
    \A j \in 1..Len(ReqItems(req)) : IsBlank(ReqLoop(req), ReqItems(req)[j]) =>
        /\ CallsForIn(log, j) = {}
        /\ InInvalidOf(resp.body, <<>>) = 0
        /\ InQueuedOf(resp.body, <<>>) = 0
        /\ InRejectionsOf(resp.body, <<>>) = 0

\* the ledger, the sid index, the calls and the lists of the result are
\* those of the loop r run without the blank items
SameAsLoop(r, req, resp, log, s2n, dlv, issued) ==
    /\ dlv = r.delivery
    /\ s2n = r.sid_to_number
    /\ issued = r.nextSid
    /\ Len(log) = Len(r.calls)
    /\ \A n \in 1..Len(log) :
          log[n] = [r.calls[n] EXCEPT !.item = Kept(req)[r.calls[n].item]]
    /\ (resp.code = 500) <=> r.raised
    /\ resp.code = 200 =>
          /\ BucketOf(resp.body, "invalid_by_lookup") = r.invalid_by_lookup
          /\ BucketOf(resp.body, "queued") = r.queued
          /\ BucketOf(resp.body, "failed_on_send") = r.failed_on_send

\* C17 as stated (blank items are silently skipped): a validated dispatch
\* makes no call for a blank item and names it in no list of its result,
\* and its result and final state are those of the same request with the
\* blank items removed; a request whose items are all blank therefore ends
\* as the request with no items does: rejected, STATE untouched.
C17_BlankItemsRemovable ==
    [][(Dispatched' /\ HasBlank(request')) =>
        /\ BlanksLeaveNoTrace(request', response', calls')
        /\ SameAsLoop(WithoutBlanks(request', calls', sid_to_number, delivery,
                                    nextSid),
                      request', response', calls', sid_to_number', delivery',
                      nextSid')
        /\ Kept(request') = <<>> => (response'.code = 400 /\ store' = store)
        /\ (Kept(request') # <<>> /\ request'.op # "send_bulk")
              => last_summary' = last_summary]_vars

\* C17 amended: a validated dispatch makes no call for a blank item and
\* names it in no list of its result; its ledger, sid index, calls and
\* result lists are those of the loop run on the items without the blank
\* ones.  When every item is blank the request is still answered 200, with
\* empty lists (and send_bulk stores that empty summary), where the request
\* with no items is rejected with 400.
C17_BlankItemsSkipped ==
    [][(Dispatched' /\ HasBlank(request')) =>
        /\ BlanksLeaveNoTrace(request', response', calls')
        /\ SameAsLoop(WithoutBlanks(request', calls', sid_to_number, delivery,
                                    nextSid),
                      request', response', calls', sid_to_number', delivery',
                      nextSid')
        /\ Kept(request') = <<>> =>
              /\ response'.code = 200
              /\ sid_to_number' = sid_to_number /\ delivery' = delivery
              /\ BucketOf(response'.body, "invalid_by_lookup") = <<>>
              /\ BucketOf(response'.body, "queued") = <<>>
        /\ request'.op # "send_bulk" => last_summary' = last_summary]_vars

\* a batch of a blank item and a number, answered with the number queued
\* and one call
C17_Witness ==
    /\ Dispatched
    /\ response.code = 200
    /\ Len(ReqItems(request)) = 2
    /\ IsBlank(ReqLoop(request), ReqItems(request)[1])
    /\ Sends(request, 2)
    /\ Len(calls) = 1
    /\ calls[1].item = 2
    /\ Bucket("queued") = <<RawOf(request, 2)>>
    /\ Bucket("invalid_by_lookup") = <<>>

\* call n is the last call of the log to its address
LastToItsAddress(log, n) == \A k \in (n + 1)..Len(log) : log[k].to # log[n].to

\* the sid the provider returned to call n, when issued sids had been
\* returned before the batch
SidOfCall(log, n, issued) ==
    Sid(issued + Cardinality({k \in 1..n : log[k].out = "ok"}))

\* the entry that call n alone writes
EntryOfCall(req, log, n, issued) ==
    IF log[n].out = "ok"
    THEN queued_entry(ReqLoop(req), SidOfCall(log, n, issued), log[n].content,
                      log[n].vars)
    ELSE failed_entry(ReqLoop(req), SendErrorText, log[n].content, log[n].vars)

\* C18 (last write wins per address): after a dispatch, the entry of every
\* address the batch sent to is the entry the last send attempt to that
\* address writes on its own: queued with that attempt's sid, or
\* failed_on_send with its reason, and with no field (sid, reason, error
\* code, error message, template, vars) of the entry the address had before,
\* whether that came from an earlier item of the batch, an earlier batch or
\* a status callback.
C18_LastWriteWins ==
    [][Dispatched' =>
        \A n \in 1..Len(calls') : LastToItsAddress(calls', n) =>
            /\ Tail(calls'[n].to) \in DOMAIN delivery'
            /\ delivery'[Tail(calls'[n].to)]
                  = EntryOfCall(request', calls', n, nextSid)]_vars

\* a batch that sent twice to one address: the first send raised, the second
\* was accepted, and the entry is the queued one with no reason
C18_Witness ==
    /\ Dispatched
    /\ Len(calls) = 2
    /\ calls[1].to = calls[2].to
    /\ calls[1].out = "raise"
    /\ calls[2].out = "ok"
    /\ delivery[Tail(calls[2].to)].status = "queued"
    /\ "reason" \notin DOMAIN delivery[Tail(calls[2].to)]

\* ConcSpec: a dispatch has run from a moment when no callback was being
\* served, exactly one callback has been received since then, and both
\* threads have returned
RaceOver ==
    /\ race.ran
    /\ race.clean
    /\ dispatcher.pc = "idle"
    /\ callback.pc = "idle"
    /\ nevents = race.ev0 + 1

\* the loop of that dispatch run in one piece from the given STATE, the
\* provider answering each item as it did
DispatchOn(s2n, dlv, issued) ==
    batch_loop(dispatcher.loop, dispatcher.content, dispatcher.variables_globales,
               dispatcher.items,
               [j \in 1..Len(dispatcher.items) |-> OutOfItem(calls, j)],
               1, loop_start(s2n, dlv, issued))

\* the ledger after that callback served in one piece from the given STATE
EventOn(s2n, dlv) ==
    status_applied(s2n, dlv, callback.form.MessageSid, callback.form.MessageStatus,
                   callback.form.ErrorCode, callback.form.ErrorMessage)

\* the ledger after the two serial orders, from STATE as the dispatch found it
EventThenDispatch ==
    DispatchOn(race.base.sid_to_number,
               EventOn(race.base.sid_to_number, race.base.delivery),
               race.base.nextSid).delivery

DispatchThenEvent ==
    LET r == DispatchOn(race.base.sid_to_number, race.base.delivery,
                        race.base.nextSid)
    IN  EventOn(r.sid_to_number, r.delivery)

\* C19 (concurrency safety of the ledger): when a status callback whose sid
\* resolves to address A is served while a dispatch that sends to A is
\* running, then however their steps interleave, once both have returned
\* A's entry is the entry one of the two serial orders (callback then
\* dispatch, dispatch then callback) leaves.
C19_LedgerSerializable ==
    (/\ RaceOver
     /\ callback.form.MessageSid \in DOMAIN race.base.sid_to_number
     /\ \E n \in 1..Len(calls) : Tail(calls[n].to) = callback.e164)
    => /\ callback.e164 \in DOMAIN delivery
       /\ \E d \in {EventThenDispatch, DispatchThenEvent} :
             /\ callback.e164 \in DOMAIN d
             /\ delivery[callback.e164] = d[callback.e164]

\* C20 (no status event for a sent message is lost): when the provider
\* accepted a message with sid M for address A in a dispatch, M being the
\* last send of the dispatch to A, and a callback for M is received at any
\* moment after that send returned, then once the callback and the dispatch
\* have returned the callback was resolved to A and A's entry has the
\* callback's status and sid M.
C20_NoEventLost ==
    RaceOver =>
        \A n \in 1..Len(calls) :
            (/\ calls[n].out = "ok"
             /\ LastToItsAddress(calls, n)
             /\ SidOfCall(calls, n, race.base.nextSid) = callback.form.MessageSid)
            => /\ callback.e164 = Tail(calls[n].to)
               /\ delivery[Tail(calls[n].to)].status = callback.form.MessageStatus
               /\ delivery[Tail(calls[n].to)].sid = callback.form.MessageSid

(* ---------------- the status-callback URL (UrlSpec) -------------------- *)
\* The process reads PUBLIC_BASE_URL once, when it starts; the dispatch
\* handlers derive the status-callback URL of a batch from it.  UrlSpec
\* starts the process under each of the values below and serves dispatch
\* requests.

BaseHttp ==
    <<"h", "t", "t", "p", ":", "/", "/", "e", "x", "a", "m", "p", "l", "e",
      ".", "c", "o", "m">>
BaseHttps ==
    <<"h", "t", "t", "p", "s", ":", "/", "/", "e", "x", "a", "m", "p", "l",
      "e", ".", "c", "o", "m">>
BaseHttpsSlash ==
    <<"h", "t", "t", "p", "s", ":", "/", "/", "e", "x", "a", "m", "p", "l",
      "e", ".", "c", "o", "m", "/">>
BaseHttpsUpper ==
    <<"H", "T", "T", "P", "S", ":", "/", "/", "E", "x", "a", "m", "p", "l",
      "e", ".", "c", "o", "m">>
BaseLocalhost ==
    <<"h", "t", "t", "p", "s", ":", "/", "/", "l", "o", "c", "a", "l", "h",
      "o", "s", "t", ":", "5", "0", "0", "0">>
BaseLoopback ==
    <<"h", "t", "t", "p", "s", ":", "/", "/", "1", "2", "7", ".", "0", ".",
      "0", ".", "1", ":", "5", "0", "0", "0">>
BaseLocalhostUpper ==
    <<"h", "t", "t", "p", "s", ":", "/", "/", "L", "O", "C", "A", "L", "H",
      "O", "S", "T", ":", "5", "0", "0", "0">>
BaseLoopbackV6 ==
    <<"h", "t", "t", "p", "s", ":", "/", "/", "[", ":", ":", "1", "]", ":",
      "5", "0", "0", "0">>

\* values of the environment variable; the empty one is the variable unset
PublicBaseUrls ==
    {<<>>, BaseHttp, BaseHttps, BaseHttpsSlash, BaseHttpsUpper, BaseLocalhost,
     BaseLoopback, BaseLocalhostUpper, BaseLoopbackV6}

UrlInit ==
    /\ InitState
    /\ \E env \in PublicBaseUrls : PUBLIC_BASE_URL = strip(env)

UrlNumbers == {Tel1, Tel2}
UrlLotes == {Lote(Tel1, "{1:Ana}"), Lote(Tel2, EmptyVars)}
UrlLists(S) == UNION {[1..k -> S] : k \in 1..(MaxItems - nitems)}

UrlNext ==
    \/ \E telefonos \in UrlLists(UrlNumbers) :
            \E outs \in OutcomesFor("bulk", telefonos) :
                send_bulk(<<"h", "o", "l", "a">>, telefonos, outs)
    \/ \E telefonos \in UrlLists(UrlNumbers) :
            \E outs \in OutcomesFor("nums", telefonos) :
                send_template(<<"H", "X", "1">>, EmptyVars, telefonos, <<>>, outs)
    \/ \E lotes \in UrlLists(UrlLotes) :
            \E outs \in OutcomesFor("lotes", lotes) :
                send_template(<<"H", "X", "1">>, EmptyVars, <<>>, lotes, outs)
    \/ \E lotes \in UrlLists(UrlLotes) :
            \E outs \in OutcomesFor("personalizado", lotes) :
                send_template_bulk_personalizado(<<"H", "X", "1">>, lotes, outs)

UrlSpec == UrlInit /\ [][UrlNext]_vars

\* The parts of a base URL the claim speaks of: its scheme, and the host of
\* its authority (the text after "scheme://" up to the first "/", without
\* the port), in lower case since host names do not distinguish case.
RECURSIVE TakeUntil(_, _)
TakeUntil(s, stops) ==
    IF s = <<>> \/ Head(s) \in stops
    THEN <<>>
    ELSE <<Head(s)>> \o TakeUntil(Tail(s), stops)

UsesHttps(base) == startswith(lower(base), <<"h", "t", "t", "p", "s", ":", "/", "/">>)

HostOf(base) ==
    LET authority == TakeUntil(SubSeq(base, 9, Len(base)), {"/"})
    IN  lower(IF authority # <<>> /\ Head(authority) = "["
              THEN TakeUntil(authority, {"]"}) \o <<"]">>
              ELSE TakeUntil(authority, {":"}))

\* localhost, an address of 127.0.0.0/8, or the IPv6 loopback address
IsLoopbackHost(host) ==
    \/ host = <<"l", "o", "c", "a", "l", "h", "o", "s", "t">>
    \/ startswith(host, <<"1", "2", "7", ".">>)
    \/ host = <<"[", ":", ":", "1", "]">>

SecureBase(base) == UsesHttps(base) /\ ~IsLoopbackHost(HostOf(base))

\* C21 (secure callback URL only): a send of a dispatch carries a
\* status-callback URL only if the configured public base URL uses https
\* and its host is not a loopback or local host name, so that under any
\* other base URL every send of the batch goes without one; and all sends
\* of one batch carry the same callback URL, or none.
C21_SecureCallbackOnly ==
    \A n \in DOMAIN calls :
        /\ calls[n].status_callback # NoCallback => SecureBase(PUBLIC_BASE_URL)
        /\ \A m \in DOMAIN calls :
              calls[m].status_callback = calls[n].status_callback

\* the part of C21 that speaks of one batch: same callback URL, or none
C21_SameUrlInBatch ==
    \A m, n \in DOMAIN calls : calls[m].status_callback = calls[n].status_callback

\* a batch of two sends that both carry the callback URL of a base URL
\* whose host is localhost
C21_LoopbackCallback ==
    /\ Len(calls) = 2
    /\ IsLoopbackHost(HostOf(PUBLIC_BASE_URL))
    /\ \A n \in DOMAIN calls : calls[n].status_callback # NoCallback

\* The two policies of the claim, each giving the E.164 text of an input or
\* Failure when it refuses the input.
Failure == <<>>

DigitsOf(raw) == SelectSeq(raw, LAMBDA ch : ch \in Digits)

HasPlus(raw) == raw # <<>> /\ Head(raw) = "+"

\* '+'-prefixed inputs that are valid numbers of their own country
ValidInternational == {TelPlusMX, TelPlusUK, TelPlusSG}

\* strict mode: the library parses the input as written, under the default
\* region when it has no leading '+'; the possible and valid checks must
\* pass; any failure refuses the input
Strict(raw) ==
    IF HasPlus(raw)
    THEN IF raw \in ValidInternational THEN raw ELSE Failure
    ELSE LET pn == phonenumbers_e164(DigitsOf(raw), DEFAULT_REGION)
         IN  IF pn.ok THEN pn.e164 ELSE Failure

\* lenient mode: an input that starts with '+' is accepted verbatim;
\* otherwise the digits are kept, ten digits get the calling code +52 in
\* front, twelve digits that begin with 52 get '+' in front, anything else
\* is refused
Lenient(raw) ==
    LET s == DigitsOf(raw)
    IN  IF HasPlus(raw) THEN raw
        ELSE IF Len(s) = 10 THEN <<"+", "5", "2">> \o s
        ELSE IF Len(s) = 12 /\ s[1] = "5" /\ s[2] = "2" THEN <<"+">> \o s
        ELSE Failure

\* what /debug-lookup shows normalize_to_e164 did with element i
Normalized(i) ==
    IF "e164" \in DOMAIN response.body[i] THEN response.body[i].e164 ELSE Failure

LookedUp == request.op = "debug_lookup"

\* C22 (single normalization policy): the numbers of one list are all
\* normalized under one policy: normalize_to_e164 gives every element what
\* strict mode gives it, or it gives every element what lenient mode gives
\* it; it does not take one element by the strict rule and another by the
\* lenient rule.  The statement is made for lists of numbers written
\* without '+': what becomes of a leading '+' is the subject of C11.
C22_SinglePolicy ==
    LookedUp /\ (\A i \in DOMAIN request.data.telefonos :
                    ~HasPlus(request.data.telefonos[i])) =>
        LET telefonos == request.data.telefonos
        IN  \/ \A i \in DOMAIN telefonos : Normalized(i) = Strict(telefonos[i])
            \/ \A i \in DOMAIN telefonos : Normalized(i) = Lenient(telefonos[i])

\* a list in which one number is accepted although strict mode refuses it
\* and another is refused although lenient mode accepts it
C22_BlendedList ==
    /\ LookedUp
    /\ \E i, j \in DOMAIN request.data.telefonos :
          /\ ~HasPlus(request.data.telefonos[i])
          /\ ~HasPlus(request.data.telefonos[j])
          /\ Normalized(i) # Failure
          /\ Strict(request.data.telefonos[i]) = Failure
          /\ Normalized(j) = Failure
          /\ Lenient(request.data.telefonos[j]) # Failure

\* C23 (index consistency): the provider gives every send a message id of
\* its own; then, whenever no dispatch step and no status event is under
\* way, every ledger entry that records a message id s has
\* sid_to_number[s] equal to the entry's address, and every address that
\* sid_to_number maps to is a key of the ledger.
C23_IndexConsistent ==
    /\ \A a \in DOMAIN delivery :
          "sid" \in DOMAIN delivery[a] =>
              /\ delivery[a].sid \in DOMAIN sid_to_number
              /\ sid_to_number[delivery[a].sid] = a
    /\ \A s \in DOMAIN sid_to_number : sid_to_number[s] \in DOMAIN delivery

\* a status event has put the first message id back into the entry of an
\* address that has been sent to twice
C23_Witness ==
    /\ request.op = "twilio_status"
    /\ DOMAIN sid_to_number = {Sid(1), Sid(2)}
    /\ sid_to_number[Sid(1)] = sid_to_number[Sid(2)]
    /\ "sid" \in DOMAIN delivery[sid_to_number[Sid(1)]]
    /\ delivery[sid_to_number[Sid(1)]].sid = Sid(1)

\* the same at the points of ConcSpec where neither thread is inside a
\* per-item step or a status event
C23_BetweenSteps ==
    dispatcher.pc \in {"idle", "item"} /\ callback.pc = "idle"
        => C23_IndexConsistent

\* a step of the thread that serves the status event
CallbackStep == callback'.pc # callback.pc

\* the ledger differs at most in the entry of address a, and has the same keys
LedgerFrame(a) ==
    /\ DOMAIN delivery' = DOMAIN delivery
    /\ \A b \in DOMAIN delivery : b # a => delivery'[b] = delivery[b]

\* C24 (status-event frame): applying a status event changes at most the
\* one ledger entry of the address its message id resolves to: no step of
\* it adds or removes a ledger key, changes the entry of another address,
\* or changes sid_to_number or last_summary.
C24_StatusEventFrame ==
    [][CallbackStep =>
          /\ LedgerFrame(callback'.e164)
          /\ sid_to_number' = sid_to_number
          /\ last_summary' = last_summary]_vars

\* the same frame for a status event served while no other request is:
\* the whole handler as one step of Spec
C24_FrameServedAlone ==
    [][StatusStep =>
          /\ LedgerFrame(get(sid_to_number, request'.form.MessageSid, <<>>))
          /\ sid_to_number' = sid_to_number
          /\ last_summary' = last_summary]_vars

====
